---- MODULE Spec2Model ----
(***************************************************************************)
(* Model of gum's build-tool resolution: FindGradle / FindMaven and the    *)
(* Execute step of the commands they return.                               *)
(*                                                                         *)
(* Representation of strings that are paths:                               *)
(*   - an absolute, cleaned path is the sequence of its names; the         *)
(*     filesystem root "/" is <<>>, "/p/child" is <<"p", "child">>;        *)
(*   - the empty string "" is Empty;                                       *)
(*   - a command-line token is the sequence of its "/"-separated segments, *)
(*     an absolute path starting with the segment "": "-b" is <<"-b">>,    *)
(*     "../x" is <<"..", "x">>, "/q/x" is <<"", "q", "x">>.                *)
(*                                                                         *)
(* What is an input rather than computed:                                  *)
(*   - the Context (FileExists, GetWorkingDir, GetPaths, IsExplicit,       *)
(*     IsWindows); filepath.Abs resolves against the same working          *)
(*     directory that GetWorkingDir reports;                               *)
(*   - the configuration returned by ReadConfig (resolveGradleRootDir only *)
(*     chooses the directory it is read from);                             *)
(*   - the flag helpers findFlag, findFlagValue, GrabFlag and the rewriter *)
(*     replaceArgs live outside the files modelled here and follow their   *)
(*     documented behaviour.                                               *)
(* Printing (warnings, debug dump, the quiet switch) is left out; the      *)
(* banner is kept as the sequence of its clauses.                          *)
(***************************************************************************)
EXTENDS Integers, Sequences, FiniteSets, TLC

VARIABLES
    fs,         \* the paths for which context.FileExists answers true
    pwd,        \* context.GetWorkingDir()
    paths,      \* context.GetPaths()
    args,       \* the command-line arguments handed to FindGradle / FindMaven
    explicit,   \* context.IsExplicit()
    windows,    \* context.IsWindows()
    config,     \* the configuration read by ReadConfig: [replace, mappings]
    tool,       \* the tool family the caller resolves: "gradle" or "maven"
    pc,         \* position of the run: start, gradle, maven, nil, done
    cmd,        \* the command returned by FindGradle / FindMaven (NoCmd if nil)
    exitCode,   \* codes passed to context.Exit, in call order
    toolArgs,   \* the argument vector Execute hands to exec.Command
    banner      \* the banner clauses built by Execute, in order

vars == <<fs, pwd, paths, args, explicit, windows, config, tool, pc, cmd, exitCode, toolArgs, banner>>

inputs == <<fs, pwd, paths, args, explicit, windows, config, tool>>

-----------------------------------------------------------------------------
(* Strings and paths *)

\* the empty string
Empty == <<"">>

\* filepath.Join(dir, ".."): the parent, the root being its own parent
ParentDir(dir) == IF dir = <<>> THEN <<>> ELSE SubSeq(dir, 1, Len(dir) - 1)

\* filepath.Join(dir, name)
Join(dir, name) == Append(dir, name)

\* filepath.Dir(file) of an absolute cleaned path, Dir("") being "."
Dir(file) == IF file = Empty THEN <<".">> ELSE ParentDir(file)

\* filepath.Base(dir)
Base(dir) == IF dir = <<>> THEN "/" ELSE dir[Len(dir)]

\* len(s) of the string of an absolute cleaned path (or of "" / ".")
RECURSIVE SumLen(_)
SumLen(p) == IF p = <<>> THEN 0 ELSE 1 + Len(p[1]) + SumLen(Tail(p))

StrLen(p) ==
    IF p = Empty THEN 0
    ELSE IF p = <<".">> THEN 1
    ELSE IF p = <<>> THEN 1
    ELSE SumLen(p)

\* filepath.Clean applied segment by segment on top of an absolute base
RECURSIVE Clean(_, _)
Clean(base, segs) ==
    IF segs = <<>> THEN base
    ELSE IF segs[1] = ".." THEN Clean(ParentDir(base), Tail(segs))
    ELSE IF segs[1] = "." \/ segs[1] = "" THEN Clean(base, Tail(segs))
    ELSE Clean(Append(base, segs[1]), Tail(segs))

\* filepath.Abs(token): joined to the working directory unless absolute
Abs(wd, tok) ==
    IF tok[1] = "" THEN Clean(<<>>, Tail(tok)) ELSE Clean(wd, tok)

\* context.FileExists(path)
FileExists(files, path) == path \in files

-----------------------------------------------------------------------------
(* Flag helpers (flags.go) and the alias rewriter (replace.go) *)

\* a plain one-segment token such as "-b" or "build"
Tok(s) == <<s>>

\* index of the first occurrence of flag that has a token after it, 0 if none
FlagValueIndex(flag, argv) ==
    LET hits == {i \in 1..(Len(argv) - 1) : argv[i] = Tok(flag)}
    IN  IF hits = {} THEN 0 ELSE CHOOSE i \in hits : \A j \in hits : i <= j

\* findFlag(flag, args): is the flag among the arguments
findFlag(flag, argv) == \E i \in 1..Len(argv) : argv[i] = Tok(flag)

\* findFlagValue(flag, args): (found, the token that follows the flag)
findFlagValue(flag, argv) ==
    LET i == FlagValueIndex(flag, argv)
    IN  IF i = 0 THEN [found |-> FALSE, value |-> Empty]
        ELSE [found |-> TRUE, value |-> argv[i + 1]]

\* the arguments without the tokens equal to flag, order kept
RECURSIVE DropFlag(_, _)
DropFlag(flag, argv) ==
    IF argv = <<>> THEN <<>>
    ELSE IF argv[1] = Tok(flag) THEN DropFlag(flag, Tail(argv))
    ELSE <<argv[1]>> \o DropFlag(flag, Tail(argv))

\* GrabFlag(flag, args): (was the flag present, the arguments without it)
GrabFlag(flag, argv) ==
    [found |-> findFlag(flag, argv), rest |-> DropFlag(flag, argv)]

\* replaceArgs(args, mappings, true): every token that is a key of the alias
\* table is replaced in place by its replacement tokens
RECURSIVE replaceArgs(_, _)
replaceArgs(argv, mappings) ==
    IF argv = <<>> THEN <<>>
    ELSE LET t == argv[1]
             r == IF Len(t) = 1 /\ t[1] \in DOMAIN mappings THEN mappings[t[1]] ELSE <<t>>
         IN  r \o replaceArgs(Tail(argv), mappings)

-----------------------------------------------------------------------------
(* Gradle: names and searches *)

resolveGradleWrapperExec(win) == IF win THEN "gradlew.bat" ELSE "gradlew"

resolveGradleExec(win) == IF win THEN "gradle.bat" ELSE "gradle"

\* mutant: the last existing candidate of dir in list order
FirstExisting_LastInOrder(files, dir, names) ==
    LET hits == {i \in 1..Len(names) : FileExists(files, Join(dir, names[i]))}
    IN  IF hits = {} THEN Empty
        ELSE Join(dir, names[CHOOSE i \in hits : \A j \in hits : j <= i])

\* first existing candidate of dir in list order, Empty if none
RECURSIVE FirstExisting(_, _, _)
FirstExisting(files, dir, names) ==
    IF names = <<>> THEN Empty
    ELSE IF FileExists(files, Join(dir, names[1])) THEN Join(dir, names[1])
    ELSE FirstExisting(files, dir, Tail(names))

\* first PATH directory, in list order, that holds the executable
RECURSIVE FindInPaths(_, _, _)
FindInPaths(files, pathlist, name) ==
    IF pathlist = <<>> THEN Empty
    ELSE IF FileExists(files, Join(pathlist[1], name)) THEN Join(pathlist[1], name)
    ELSE FindInPaths(files, Tail(pathlist), name)

findGradleExec(files, pathlist, win) ==
    FindInPaths(files, pathlist, resolveGradleExec(win))

RECURSIVE findGradleWrapperExec(_, _, _)
findGradleWrapperExec(files, dir, win) ==
    IF ParentDir(dir) = dir THEN Empty
    ELSE IF FileExists(files, Join(dir, resolveGradleWrapperExec(win)))
         THEN Join(dir, resolveGradleWrapperExec(win))
    ELSE findGradleWrapperExec(files, ParentDir(dir), win)

\* the value of a flag as typed, the short form first
ValueAsTyped(short, long, argv) ==
    IF findFlagValue(short, argv).found THEN findFlagValue(short, argv).value
    ELSE findFlagValue(long, argv).value

ExplicitFlag(short, long, argv, wd) ==
    LET a == findFlagValue(short, argv)
        b == IF a.found THEN a ELSE findFlagValue(long, argv)
    IN  IF b.found THEN [set |-> TRUE, file |-> Abs(wd, b.value)]
        ELSE [set |-> FALSE, file |-> Empty]

\* mutant: the project directory is kept as typed, not made absolute
findExplicitProjectDir_NotAbsolute(argv, wd) ==
    LET r == ExplicitFlag("-p", "--project-dir", argv, <<>>)
    IN  IF r.set THEN [r EXCEPT !.file = ValueAsTyped("-p", "--project-dir", argv)] ELSE r

findExplicitProjectDir(argv, wd) == ExplicitFlag("-p", "--project-dir", argv, wd)

\* mutant: the build file is kept as typed, not made absolute
findExplicitGradleBuildFile_NotAbsolute(argv, wd) ==
    LET r == ExplicitFlag("-b", "--build-file", argv, <<>>)
    IN  IF r.set THEN [r EXCEPT !.file = ValueAsTyped("-b", "--build-file", argv)] ELSE r

findExplicitGradleBuildFile(argv, wd) == ExplicitFlag("-b", "--build-file", argv, wd)

findExplicitGradleSettingsFile(argv, wd) == ExplicitFlag("-c", "--settings-file", argv, wd)

GradleBuildFiles(dir) ==
    <<"build.gradle", "build.gradle.kts", Base(dir) \o ".gradle", Base(dir) \o ".gradle.kts">>

\* mutant: only the start directory is probed
findGradleBuildFile_StartDirOnly(files, dir) ==
    IF ParentDir(dir) = dir THEN Empty
    ELSE FirstExisting(files, dir, GradleBuildFiles(dir))

RECURSIVE findGradleBuildFile(_, _)
findGradleBuildFile(files, dir) ==
    IF ParentDir(dir) = dir THEN Empty
    ELSE IF FirstExisting(files, dir, GradleBuildFiles(dir)) # Empty
         THEN FirstExisting(files, dir, GradleBuildFiles(dir))
    ELSE findGradleBuildFile(files, ParentDir(dir))

GradleSettingsFiles == <<"settings.gradle", "settings.gradle.kts">>

\* mutant: the candidates are tested before the root test, the filesystem
\* root included
findGradleSettingsFile_ProbesRoot(files, dir) ==
    LET hits == {k \in 0..Len(dir) :
                    FirstExisting(files, SubSeq(dir, 1, k), GradleSettingsFiles) # Empty}
    IN  IF hits = {} THEN Empty
        ELSE FirstExisting(files, SubSeq(dir, 1, CHOOSE k \in hits : \A j \in hits : j <= k),
                           GradleSettingsFiles)

RECURSIVE findGradleSettingsFile(_, _)
findGradleSettingsFile(files, dir) ==
    IF ParentDir(dir) = dir THEN Empty
    ELSE IF FirstExisting(files, dir, GradleSettingsFiles) # Empty
         THEN FirstExisting(files, dir, GradleSettingsFiles)
    ELSE findGradleSettingsFile(files, ParentDir(dir))

GradleRootFiles == <<"build.gradle", "build.gradle.kts">>

RECURSIVE findGradleRootFile(_, _, _)
findGradleRootFile(files, dir, settingsFile) ==
    IF ParentDir(dir) = dir THEN Empty
    ELSE IF FirstExisting(files, dir, GradleRootFiles) # Empty
         THEN FirstExisting(files, dir, GradleRootFiles)
    ELSE IF StrLen(settingsFile) > 0
            /\ StrLen(ParentDir(dir)) <= StrLen(Dir(settingsFile))
         THEN Empty
    ELSE findGradleRootFile(files, ParentDir(dir), settingsFile)

\* mutant: the wrapper search ignores -p and starts at the working directory
resolveGradleWrapperExecutable_IgnoresProjectDir(files, wd, argv, win) ==
    findGradleWrapperExec(files, wd, win)

resolveGradleWrapperExecutable(files, wd, argv, win) ==
    LET pd == findExplicitProjectDir(argv, wd)
    IN  IF pd.set THEN findGradleWrapperExec(files, pd.file, win)
        ELSE findGradleWrapperExec(files, wd, win)

-----------------------------------------------------------------------------
(* Commands *)

\* the nil command
NoCmd ==
    [nil |-> TRUE, tool |-> "none", executable |-> Empty, args |-> <<>>,
     explicitProjectDir |-> Empty, buildFile |-> Empty, explicitBuildFile |-> Empty,
     rootBuildFile |-> Empty, settingsFile |-> Empty, explicitSettingsFile |-> Empty]

\* &GradleCommand{executable, args}, every other string field zero
GradleCommand(executable, argv) ==
    [NoCmd EXCEPT !.nil = FALSE, !.tool = "gradle", !.executable = executable, !.args = argv]

\* &MavenCommand{executable, args}, every other string field zero
MavenCommand(executable, argv) ==
    [NoCmd EXCEPT !.nil = FALSE, !.tool = "maven", !.executable = executable, !.args = argv]

\* the executable chosen from the wrapper and the system tool, Empty if neither
SelectExecutable(wrapper, system) == IF wrapper # Empty THEN wrapper ELSE system

\* mutant: Exit is never called
NoCommand_Silent(expl) == [cmd |-> NoCmd, exits |-> <<>>]

\* the result when no command is returned: Exit(-1) in explicit mode, then nil
NoCommand(expl) == [cmd |-> NoCmd, exits |-> IF expl THEN <<-1>> ELSE <<>>]

\* the command returned when -p / --project-dir is given
ProjectDirCommand(base, dir) == [base EXCEPT !.explicitProjectDir = dir]

\* mutant: the discovered settings file is dropped
BuildFileCommand_NoSettings(base, eb, es, settingsFile) ==
    [base EXCEPT !.explicitBuildFile = eb.file, !.explicitSettingsFile = es.file]

\* the command returned when -b / --build-file is given
BuildFileCommand(base, eb, es, settingsFile) ==
    IF es.set
    THEN [base EXCEPT !.explicitBuildFile = eb.file, !.explicitSettingsFile = es.file]
    ELSE [base EXCEPT !.explicitBuildFile = eb.file, !.settingsFile = settingsFile]

\* mutant: no fallback to the nearest build file
RootOrNearest_NoFallback(foundRoot, buildFile) == foundRoot

\* the root build file falls back to the nearest one
RootOrNearest(foundRoot, buildFile) == IF foundRoot = Empty THEN buildFile ELSE foundRoot

\* mutant: without a build file no command is returned
DiscoveredCommand_BuildFileRequired(base, buildFile, rootBuildFile, settingsFile, es, expl) ==
    IF buildFile = Empty THEN NoCommand(expl)
    ELSE [cmd |-> [base EXCEPT !.buildFile = buildFile,
                               !.rootBuildFile = rootBuildFile,
                               !.settingsFile = settingsFile,
                               !.explicitSettingsFile = es.file],
          exits |-> <<>>]

\* the result of the discovery path of FindGradle
DiscoveredCommand(base, buildFile, rootBuildFile, settingsFile, es, expl) ==
    IF buildFile = Empty /\ es.set
    THEN [cmd |-> [base EXCEPT !.buildFile = buildFile,
                               !.rootBuildFile = rootBuildFile,
                               !.explicitSettingsFile = es.file],
          exits |-> <<>>]
    ELSE IF buildFile = Empty /\ settingsFile = Empty
    THEN NoCommand(expl)
    ELSE [cmd |-> [base EXCEPT !.buildFile = buildFile,
                               !.rootBuildFile = rootBuildFile,
                               !.settingsFile = settingsFile,
                               !.explicitSettingsFile = es.file],
          exits |-> <<>>]

\* FindGradle: the command returned and the codes passed to context.Exit
FindGradle(files, wd, pathlist, argv, expl, win) ==
    LET gradle == findGradleExec(files, pathlist, win)
        pd == findExplicitProjectDir(argv, wd)
        gradlew == resolveGradleWrapperExecutable(files, wd, argv, win)
        eb == findExplicitGradleBuildFile(argv, wd)
        es == findExplicitGradleSettingsFile(argv, wd)
        settingsFile == findGradleSettingsFile(files, wd)
        buildFile == findGradleBuildFile(files, wd)
        sf == IF eb.set THEN eb.file ELSE settingsFile
        foundRoot == findGradleRootFile(files, ParentDir(wd), sf)
        executable == SelectExecutable(gradlew, gradle)
        base == GradleCommand(executable, argv)
    IN  IF executable = Empty THEN NoCommand(expl)
        ELSE IF pd.set THEN [cmd |-> ProjectDirCommand(base, pd.file), exits |-> <<>>]
        ELSE IF eb.set
        THEN [cmd |-> BuildFileCommand(base, eb, es, settingsFile), exits |-> <<>>]
        ELSE DiscoveredCommand(base, buildFile, RootOrNearest(foundRoot, buildFile),
                               settingsFile, es, expl)

\* a banner clause
Clause(kind, file) == [kind |-> kind, file |-> file]

\* replaceGradleTasks(config, args)
replaceGradleTasks(cfg, argv) ==
    IF cfg.replace THEN replaceArgs(argv, cfg.mappings) ELSE argv

\* mutant: -gr is removed but does not change the setting
GradleConfigAfterFlags_IgnoresFlag(cfg, argv) == cfg

\* the configuration after the -gr handling of doConfigureGradle
GradleConfigAfterFlags(cfg, argv) ==
    LET oargs == GrabFlag("-gd", GrabFlag("-gn", argv).rest).rest
        replaceSet == findFlag("-gr", oargs)
        skipReplace == GrabFlag("-gr", oargs).found
    IN  IF replaceSet THEN [cfg EXCEPT !.replace = ~skipReplace] ELSE cfg

\* mutant: -gn is ignored, the root build file always preferred
BuildFlag_IgnoresNearest(flag, c, nearest) ==
    IF c.explicitBuildFile # Empty
    THEN [args |-> <<>>, set |-> TRUE,
          banner |-> <<Clause("to run buildFile", c.explicitBuildFile)>>]
    ELSE IF c.rootBuildFile # Empty
    THEN [args |-> <<Tok(flag), c.rootBuildFile>>, set |-> TRUE,
          banner |-> <<Clause("to run buildFile", c.rootBuildFile)>>]
    ELSE [args |-> <<>>, set |-> FALSE, banner |-> <<>>]

\* mutant: the flag is added for the explicit build file as well
BuildFlag_AddsExplicit(flag, c, nearest) ==
    IF c.explicitBuildFile # Empty
    THEN [args |-> <<Tok(flag), c.explicitBuildFile>>, set |-> TRUE,
          banner |-> <<Clause("to run buildFile", c.explicitBuildFile)>>]
    ELSE IF nearest /\ c.buildFile # Empty
    THEN [args |-> <<Tok(flag), c.buildFile>>, set |-> TRUE,
          banner |-> <<Clause("to run buildFile", c.buildFile)>>]
    ELSE IF c.rootBuildFile # Empty
    THEN [args |-> <<Tok(flag), c.rootBuildFile>>, set |-> TRUE,
          banner |-> <<Clause("to run buildFile", c.rootBuildFile)>>]
    ELSE [args |-> <<>>, set |-> FALSE, banner |-> <<>>]

\* the build-file branch of Execute: the flag added, the banner clause
BuildFlag(flag, c, nearest) ==
    IF c.explicitBuildFile # Empty
    THEN [args |-> <<>>, set |-> TRUE,
          banner |-> <<Clause("to run buildFile", c.explicitBuildFile)>>]
    ELSE IF nearest /\ c.buildFile # Empty
    THEN [args |-> <<Tok(flag), c.buildFile>>, set |-> TRUE,
          banner |-> <<Clause("to run buildFile", c.buildFile)>>]
    ELSE IF c.rootBuildFile # Empty
    THEN [args |-> <<Tok(flag), c.rootBuildFile>>, set |-> TRUE,
          banner |-> <<Clause("to run buildFile", c.rootBuildFile)>>]
    ELSE [args |-> <<>>, set |-> FALSE, banner |-> <<>>]

\* mutant: the discovered settings file is looked at before the explicit one
SettingsFlag_DiscoveredFirst(c, buildFileSet) ==
    IF c.settingsFile # Empty
    THEN [args |-> <<Tok("-c"), c.settingsFile>>,
          banner |-> IF buildFileSet THEN <<>>
                     ELSE <<Clause("with settings at", c.settingsFile)>>]
    ELSE IF c.explicitSettingsFile # Empty
    THEN [args |-> <<>>,
          banner |-> IF buildFileSet THEN <<>>
                     ELSE <<Clause("with settings at", c.explicitSettingsFile)>>]
    ELSE [args |-> <<>>, banner |-> <<>>]

\* mutant: the settings file is named in the banner whenever there is one
SettingsFlag_AlwaysNamed(c, buildFileSet) ==
    IF c.explicitSettingsFile # Empty
    THEN [args |-> <<>>, banner |-> <<Clause("with settings at", c.explicitSettingsFile)>>]
    ELSE IF c.settingsFile # Empty
    THEN [args |-> <<Tok("-c"), c.settingsFile>>,
          banner |-> <<Clause("with settings at", c.settingsFile)>>]
    ELSE [args |-> <<>>, banner |-> <<>>]

\* the settings-file branch of doConfigureGradle
SettingsFlag(c, buildFileSet) ==
    IF c.explicitSettingsFile # Empty
    THEN [args |-> <<>>,
          banner |-> IF buildFileSet THEN <<>>
                     ELSE <<Clause("with settings at", c.explicitSettingsFile)>>]
    ELSE IF c.settingsFile # Empty
    THEN [args |-> <<Tok("-c"), c.settingsFile>>,
          banner |-> IF buildFileSet THEN <<>>
                     ELSE <<Clause("with settings at", c.settingsFile)>>]
    ELSE [args |-> <<>>, banner |-> <<>>]

\* doConfigureGradle: the argument vector and the banner
doConfigureGradle(c, cfg) ==
    LET nearest == GrabFlag("-gn", c.args).found
        oargs == GrabFlag("-gr", GrabFlag("-gd", GrabFlag("-gn", c.args).rest).rest).rest
        rargs == replaceGradleTasks(GradleConfigAfterFlags(cfg, c.args), oargs)
        head == <<Clause("Using gradle at", c.executable)>>
        build == BuildFlag("-b", c, nearest)
        settings == SettingsFlag(c, build.set)
    IN  IF c.explicitProjectDir # Empty
        THEN [args |-> rargs,
              banner |-> head \o <<Clause("to run project at", c.explicitProjectDir)>>]
        ELSE [args |-> build.args \o settings.args \o rargs,
              banner |-> head \o build.banner \o settings.banner]

-----------------------------------------------------------------------------
(* Maven *)

resolveMavenWrapperExec(win) == IF win THEN "mvnw.bat" ELSE "mvnw"

resolveMavenExec(win) == IF win THEN "mvn.bat" ELSE "mvn"

findMavenExec(files, pathlist, win) ==
    FindInPaths(files, pathlist, resolveMavenExec(win))

RECURSIVE findMavenWrapperExec(_, _, _)
findMavenWrapperExec(files, dir, win) ==
    IF ParentDir(dir) = dir THEN Empty
    ELSE IF FileExists(files, Join(dir, resolveMavenWrapperExec(win)))
         THEN Join(dir, resolveMavenWrapperExec(win))
    ELSE findMavenWrapperExec(files, ParentDir(dir), win)

findExplicitMavenBuildFile(argv, wd) == ExplicitFlag("-f", "--file", argv, wd)

\* mutant: the nearest search starts two directories above the working
\* directory
findMavenBuildFile_AboveParent(files, dir) ==
    LET start == ParentDir(ParentDir(dir))
        hits == {k \in 1..Len(start) : FileExists(files, Join(SubSeq(start, 1, k), "pom.xml"))}
    IN  IF hits = {} THEN Empty
        ELSE Join(SubSeq(start, 1, CHOOSE k \in hits : \A j \in hits : j <= k), "pom.xml")

RECURSIVE findMavenBuildFile(_, _)
findMavenBuildFile(files, dir) ==
    IF ParentDir(dir) = dir THEN Empty
    ELSE IF FileExists(files, Join(dir, "pom.xml")) THEN Join(dir, "pom.xml")
    ELSE findMavenBuildFile(files, ParentDir(dir))

RECURSIVE findMavenRootFile(_, _)
findMavenRootFile(files, dir) ==
    IF ParentDir(dir) = dir THEN Empty
    ELSE IF FileExists(files, Join(dir, "pom.xml")) THEN Join(dir, "pom.xml")
    ELSE findMavenRootFile(files, ParentDir(dir))

\* FindMaven: the command returned and the codes passed to context.Exit
FindMaven(files, wd, pathlist, argv, expl, win) ==
    LET mvnw == findMavenWrapperExec(files, wd, win)
        mvn == findMavenExec(files, pathlist, win)
        eb == findExplicitMavenBuildFile(argv, wd)
        executable == SelectExecutable(mvnw, mvn)
        base == MavenCommand(executable, argv)
        foundRoot == findMavenRootFile(files, ParentDir(wd))
        buildFile == findMavenBuildFile(files, wd)
    IN  IF executable = Empty THEN NoCommand(expl)
        ELSE IF eb.set
        THEN [cmd |-> [base EXCEPT !.explicitBuildFile = eb.file], exits |-> <<>>]
        ELSE IF buildFile = Empty THEN NoCommand(expl)
        ELSE [cmd |-> [base EXCEPT !.rootBuildFile = RootOrNearest(foundRoot, buildFile),
                                   !.buildFile = buildFile],
              exits |-> <<>>]

\* MavenCommand.Execute: the argument vector and the banner
MavenExecuteArgs(c) ==
    LET nearest == GrabFlag("-gn", c.args).found
        nargs == GrabFlag("-gd", GrabFlag("-gn", c.args).rest).rest
        build == BuildFlag("-f", c, nearest)
    IN  [args |-> build.args \o nargs,
         banner |-> <<Clause("Using maven at", c.executable)>> \o build.banner]

-----------------------------------------------------------------------------
(* The upward walks, counted: the number of times each search calls itself *)
(* on the parent directory before it returns                               *)

RECURSIVE findGradleWrapperExecSteps(_, _, _)
findGradleWrapperExecSteps(files, dir, win) ==
    IF ParentDir(dir) = dir THEN 0
    ELSE IF FileExists(files, Join(dir, resolveGradleWrapperExec(win))) THEN 0
    ELSE 1 + findGradleWrapperExecSteps(files, ParentDir(dir), win)

\* mutant: a walk that is not stopped at the filesystem root, cut one step
\* beyond it
findGradleBuildFileSteps_PastRoot(files, dir) ==
    IF findGradleBuildFile(files, dir) = Empty THEN Len(dir) + 1
    ELSE Len(dir) - Len(Dir(findGradleBuildFile(files, dir)))

RECURSIVE findGradleBuildFileSteps(_, _)
findGradleBuildFileSteps(files, dir) ==
    IF ParentDir(dir) = dir THEN 0
    ELSE IF FirstExisting(files, dir, GradleBuildFiles(dir)) # Empty THEN 0
    ELSE 1 + findGradleBuildFileSteps(files, ParentDir(dir))

RECURSIVE findGradleSettingsFileSteps(_, _)
findGradleSettingsFileSteps(files, dir) ==
    IF ParentDir(dir) = dir THEN 0
    ELSE IF FirstExisting(files, dir, GradleSettingsFiles) # Empty THEN 0
    ELSE 1 + findGradleSettingsFileSteps(files, ParentDir(dir))

RECURSIVE findGradleRootFileSteps(_, _, _)
findGradleRootFileSteps(files, dir, settingsFile) ==
    IF ParentDir(dir) = dir THEN 0
    ELSE IF FirstExisting(files, dir, GradleRootFiles) # Empty THEN 0
    ELSE IF StrLen(settingsFile) > 0
            /\ StrLen(ParentDir(dir)) <= StrLen(Dir(settingsFile))
         THEN 0
    ELSE 1 + findGradleRootFileSteps(files, ParentDir(dir), settingsFile)

RECURSIVE findMavenWrapperExecSteps(_, _, _)
findMavenWrapperExecSteps(files, dir, win) ==
    IF ParentDir(dir) = dir THEN 0
    ELSE IF FileExists(files, Join(dir, resolveMavenWrapperExec(win))) THEN 0
    ELSE 1 + findMavenWrapperExecSteps(files, ParentDir(dir), win)

RECURSIVE findMavenBuildFileSteps(_, _)
findMavenBuildFileSteps(files, dir) ==
    IF ParentDir(dir) = dir THEN 0
    ELSE IF FileExists(files, Join(dir, "pom.xml")) THEN 0
    ELSE 1 + findMavenBuildFileSteps(files, ParentDir(dir))

RECURSIVE findMavenRootFileSteps(_, _)
findMavenRootFileSteps(files, dir) ==
    IF ParentDir(dir) = dir THEN 0
    ELSE IF FileExists(files, Join(dir, "pom.xml")) THEN 0
    ELSE 1 + findMavenRootFileSteps(files, ParentDir(dir))

-----------------------------------------------------------------------------
(* Bounds and input sets *)

\* most wrapper / system executables present at once
MaxExecFiles == 2

\* most build / settings files present at once
MaxFiles == 3

Root == <<>>
DirP == <<"p">>
DirChild == <<"p", "child">>
DirSub == <<"p", "child", "sub">>
DirQ == <<"q">>
DirBin == <<"bin">>
DirOpt == <<"opt">>

\* the working directories tried: the root and a chain below it
WorkDirs == {Root, DirP, DirChild, DirSub}

NoMappings == [k \in {} |-> <<>>]
BuildAlias == [k \in {"b"} |-> <<Tok("clean"), Tok("build")>>]

Configs ==
    {[replace |-> FALSE, mappings |-> BuildAlias],
     [replace |-> TRUE, mappings |-> BuildAlias],
     [replace |-> TRUE, mappings |-> NoMappings]}

DefaultConfig == [replace |-> TRUE, mappings |-> BuildAlias]

SubsetsUpTo(U, n) == {X \in SUBSET U : Cardinality(X) <= n}

\* executables: wrappers along the chain and under /q, system tools on the PATH
ExecFiles ==
    {Join(d, "gradlew") : d \in WorkDirs \cup {DirQ}}
    \cup {Join(d, "mvnw") : d \in WorkDirs}
    \cup {Join(d, n) : d \in {DirBin, DirOpt}, n \in {"gradle", "mvn"}}

PathLists == {<<>>, <<DirBin>>, <<DirBin, DirOpt>>, <<DirOpt, DirBin>>}

ExecArgs == {<<>>, <<Tok("-p"), <<"", "q">>>>, <<Tok("--project-dir"), <<"..">>>>}

InitExec ==
    /\ \E X \in SubsetsUpTo(ExecFiles, MaxExecFiles) :
           fs = X \cup {Join(DirP, "build.gradle"), Join(DirP, "pom.xml")}
    /\ pwd \in WorkDirs
    /\ paths \in PathLists
    /\ args \in ExecArgs
    /\ explicit \in BOOLEAN
    /\ windows = FALSE
    /\ config = DefaultConfig
    /\ tool \in {"gradle", "maven"}

\* gradle build and settings files along the chain
GradleFiles ==
    {Join(d, n) : d \in {DirP, DirChild, DirSub},
                  n \in {"build.gradle", "build.gradle.kts", "settings.gradle"}}
    \cup {Join(d, Base(d) \o ".gradle") : d \in {DirP, DirChild, DirSub}}
    \cup {Join(Root, "build.gradle"), Join(Root, "settings.gradle"),
          Join(DirP, "settings.gradle.kts"), Join(DirSub, "sub.gradle.kts")}

FileArgs ==
    {<<>>, <<Tok("-gn")>>, <<Tok("-c"), <<"..", "settings.gradle">>, Tok("b")>>}

InitFiles ==
    /\ \E X \in SubsetsUpTo(GradleFiles, MaxFiles) :
           fs = X \cup {Join(DirBin, "gradle")}
    /\ pwd \in WorkDirs
    /\ paths = <<DirBin>>
    /\ args \in FileArgs
    /\ explicit \in BOOLEAN
    /\ windows = FALSE
    /\ config = DefaultConfig
    /\ tool = "gradle"

\* a small tree for the explicit flags and their combinations
FlagFiles ==
    {Join(DirP, "build.gradle"), Join(DirChild, "build.gradle"),
     Join(DirP, "settings.gradle"), Join(DirP, "gradlew"),
     Join(DirChild, "settings.gradle.kts"), Join(DirChild, "explicit.gradle")}

BuildTok == <<"explicit.gradle">>
SettingsTok == <<"..", "settings.gradle">>
ProjectTok == <<"", "p">>

FlagArgs ==
    {<<Tok("-b"), BuildTok>>,
     <<Tok("--build-file"), BuildTok, Tok("b")>>,
     <<Tok("-b"), BuildTok, Tok("-c"), SettingsTok>>,
     <<Tok("-gn"), Tok("-b"), BuildTok, Tok("--settings-file"), SettingsTok>>,
     <<Tok("-c"), SettingsTok>>,
     <<Tok("--settings-file"), <<"", "q", "settings.gradle">>, Tok("-gn"), Tok("b")>>,
     <<Tok("-p"), ProjectTok, Tok("b")>>,
     <<Tok("--project-dir"), <<"..">>, Tok("b"), Tok("-gr")>>,
     <<Tok("-p"), ProjectTok, Tok("-b"), BuildTok>>,
     <<Tok("-b"), BuildTok, Tok("-c"), SettingsTok, Tok("-p"), ProjectTok, Tok("-gn")>>,
     <<Tok("-gd"), Tok("test"), Tok("-gr"), Tok("b")>>,
     <<Tok("b"), Tok("-c")>>,
     <<Tok("-p"), Tok("b")>>,
     <<>>}

InitFlags ==
    /\ \E X \in SUBSET FlagFiles : fs = X \cup {Join(DirBin, "gradle")}
    /\ pwd \in {DirChild, DirSub}
    /\ paths = <<DirBin>>
    /\ args \in FlagArgs
    /\ explicit \in BOOLEAN
    /\ windows = FALSE
    /\ config \in Configs
    /\ tool = "gradle"

\* maven: pom.xml and mvnw along the chain
MavenFiles ==
    {Join(d, "pom.xml") : d \in WorkDirs} \cup {Join(DirP, "mvnw"), Join(DirBin, "mvn")}

MavenArgs ==
    {<<>>, <<Tok("-gn"), Tok("install")>>, <<Tok("-f"), <<"..", "pom.xml">>>>,
     <<Tok("-gd"), Tok("--file"), <<"", "q", "pom.xml">>, Tok("-gn")>>,
     <<Tok("-gr"), Tok("install")>>}

InitMaven ==
    /\ fs \in SUBSET MavenFiles
    /\ pwd \in WorkDirs
    /\ paths = <<DirBin>>
    /\ args \in MavenArgs
    /\ explicit \in BOOLEAN
    /\ windows = FALSE
    /\ config = DefaultConfig
    /\ tool = "maven"

\* Windows names of the executables
WindowsFiles ==
    {Join(DirP, "gradlew.bat"), Join(DirP, "gradlew"), Join(DirBin, "gradle.bat"),
     Join(DirBin, "gradle"), Join(DirP, "mvnw.bat"), Join(DirBin, "mvn.bat"),
     Join(DirBin, "mvn")}

InitWindows ==
    /\ \E X \in SUBSET WindowsFiles :
           fs = X \cup {Join(DirChild, "build.gradle"), Join(DirChild, "pom.xml")}
    /\ pwd = DirChild
    /\ paths = <<DirBin>>
    /\ args = <<>>
    /\ explicit \in BOOLEAN
    /\ windows = TRUE
    /\ config = DefaultConfig
    /\ tool \in {"gradle", "maven"}

-----------------------------------------------------------------------------
(* The run *)

Init ==
    /\ InitExec \/ InitFiles \/ InitFlags \/ InitMaven \/ InitWindows
    /\ pc = "start"
    /\ cmd = NoCmd
    /\ exitCode = <<>>
    /\ toolArgs = <<>>
    /\ banner = <<>>

\* the caller resolves the gradle family
RunFindGradle ==
    /\ pc = "start"
    /\ tool = "gradle"
    /\ LET r == FindGradle(fs, pwd, paths, args, explicit, windows)
       IN  /\ cmd' = r.cmd
           /\ exitCode' = r.exits
           /\ pc' = IF r.cmd.nil THEN "nil" ELSE "gradle"
    /\ UNCHANGED <<inputs, toolArgs, banner>>

\* the caller resolves the maven family
RunFindMaven ==
    /\ pc = "start"
    /\ tool = "maven"
    /\ LET r == FindMaven(fs, pwd, paths, args, explicit, windows)
       IN  /\ cmd' = r.cmd
           /\ exitCode' = r.exits
           /\ pc' = IF r.cmd.nil THEN "nil" ELSE "maven"
    /\ UNCHANGED <<inputs, toolArgs, banner>>

\* GradleCommand.Execute
GradleExecute ==
    /\ pc = "gradle"
    /\ LET r == doConfigureGradle(cmd, config)
       IN  /\ toolArgs' = r.args
           /\ banner' = r.banner
    /\ config' = GradleConfigAfterFlags(config, cmd.args)
    /\ pc' = "done"
    /\ UNCHANGED <<fs, pwd, paths, args, explicit, windows, tool, cmd, exitCode>>

\* MavenCommand.Execute
MavenExecute ==
    /\ pc = "maven"
    /\ LET r == MavenExecuteArgs(cmd)
       IN  /\ toolArgs' = r.args
           /\ banner' = r.banner
    /\ pc' = "done"
    /\ UNCHANGED <<inputs, cmd, exitCode>>

Next == RunFindGradle \/ RunFindMaven \/ GradleExecute \/ MavenExecute

Spec == Init /\ [][Next]_vars

-----------------------------------------------------------------------------
(* Vocabulary of the properties *)

\* FindGradle / FindMaven has returned
Resolved == pc # "start"

\* a command (not nil) has been returned
PlanReturned == Resolved /\ ~cmd.nil

\* Execute has built the argument vector
Executed == pc = "done"

\* dir and its ancestors, the filesystem root included
UpFrom(dir) == {SubSeq(dir, 1, k) : k \in 0..Len(dir)}

\* the deepest directory of a non-empty set of directories of one chain
Deepest(dirs) == CHOOSE d \in dirs : \A e \in dirs : Len(e) <= Len(d)

\* the highest directory of a non-empty set of directories of one chain
Highest(dirs) == CHOOSE d \in dirs : \A e \in dirs : Len(d) <= Len(e)

\* the token after the first occurrence of flag, Empty if there is none
FirstAfter(flag) ==
    LET I == {i \in 1..(Len(args) - 1) : args[i] = <<flag>>}
    IN  IF I = {} THEN Empty ELSE args[(CHOOSE i \in I : \A j \in I : i <= j) + 1]

\* the value given with a flag, the short form first; Empty if not given
ValueOf(short, long) ==
    IF FirstAfter(short) # Empty THEN FirstAfter(short) ELSE FirstAfter(long)

HasProjectDir == ValueOf("-p", "--project-dir") # Empty
HasBuildFile == ValueOf("-b", "--build-file") # Empty
HasSettingsFile == ValueOf("-c", "--settings-file") # Empty
HasMavenFile == ValueOf("-f", "--file") # Empty

\* the arguments without the meta-flags
UserArgs == SelectSeq(args, LAMBDA t : t \notin {<<"-gn">>, <<"-gd">>, <<"-gr">>})

\* the trailing arguments as Execute passes them on: rewritten when enabled
TrailingArgs == replaceGradleTasks(config, UserArgs)

Nearest == \E i \in 1..Len(args) : args[i] = <<"-gn">>

\* no flag that replaces the discovery of the build file
NoExplicitFile ==
    IF tool = "gradle" THEN ~HasProjectDir /\ ~HasBuildFile ELSE ~HasMavenFile

WrapperName ==
    IF tool = "gradle" THEN (IF windows THEN "gradlew.bat" ELSE "gradlew")
    ELSE (IF windows THEN "mvnw.bat" ELSE "mvnw")

SystemName ==
    IF tool = "gradle" THEN (IF windows THEN "gradle.bat" ELSE "gradle")
    ELSE (IF windows THEN "mvn.bat" ELSE "mvn")

\* where the wrapper search starts
WrapperStart ==
    IF tool = "gradle" /\ HasProjectDir
    THEN Abs(pwd, ValueOf("-p", "--project-dir")) ELSE pwd

\* the directories, among dirs, that hold a wrapper
WrapperDirs(dirs) == {d \in dirs : Join(d, WrapperName) \in fs}

\* the positions of the PATH list whose directory holds the system tool
PathHits == {i \in 1..Len(paths) : Join(paths[i], SystemName) \in fs}

\* the executable the selection rule names when wrappers are looked for in dirs
ExpectedExecutable(dirs) ==
    IF WrapperDirs(dirs) # {} THEN Join(Deepest(WrapperDirs(dirs)), WrapperName)
    ELSE IF PathHits # {}
    THEN Join(paths[CHOOSE i \in PathHits : \A j \in PathHits : i <= j], SystemName)
    ELSE Empty

\* the statement of executable selection, wrappers being looked for in dirs
ExecutableSelection(dirs) ==
    Resolved =>
        /\ ~cmd.nil => cmd.executable = ExpectedExecutable(dirs) /\ cmd.executable # Empty
        /\ ExpectedExecutable(dirs) = Empty => cmd.nil

-----------------------------------------------------------------------------
(* C1 *)

\* C1 as stated: the chosen executable is the wrapper of the nearest directory
\* at or above the start directory (the filesystem root included), else the
\* system tool of the first PATH directory holding it, else no command.
C1_Original == ExecutableSelection(UpFrom(WrapperStart))

\* C1 (amended): the chosen executable is the wrapper of the nearest directory
\* other than the filesystem root, at or above the working directory (gradle:
\* the -p directory when given); only when there is none, the system tool of
\* the first PATH directory holding it; when neither exists no command is
\* returned. Every returned command has a non-empty executable.
C1_ExecutableSelection == ExecutableSelection(UpFrom(WrapperStart) \ {Root})

\* a wrapper in two directories of the chain, the nearer one chosen over the
\* farther one and over a system tool
C1_Witness ==
    /\ PlanReturned
    /\ Cardinality(WrapperDirs(UpFrom(WrapperStart) \ {Root})) >= 2
    /\ cmd.executable = Join(Deepest(WrapperDirs(UpFrom(WrapperStart))), WrapperName)

\* an executable is resolvable
ExecutableResolvable == ExpectedExecutable(UpFrom(WrapperStart) \ {Root}) # Empty

GradlePlan == PlanReturned /\ tool = "gradle"
MavenPlan == PlanReturned /\ tool = "maven"

-----------------------------------------------------------------------------
(* C2 *)

\* C2 as stated: whenever -b / --build-file is among the arguments, whatever
\* the other flags, the returned command has explicitBuildFile = abs(path) and
\* empty buildFile and rootBuildFile.
C2_Original ==
    GradlePlan /\ HasBuildFile =>
        /\ cmd.explicitBuildFile = Abs(pwd, ValueOf("-b", "--build-file"))
        /\ cmd.buildFile = Empty
        /\ cmd.rootBuildFile = Empty

\* C2 (amended): whenever -b / --build-file is among the arguments and
\* -p / --project-dir is not, and an executable is resolvable, a command is
\* returned with explicitBuildFile = abs(path) and empty buildFile and
\* rootBuildFile.
C2_ExplicitBuildFile ==
    Resolved /\ tool = "gradle" /\ HasBuildFile /\ ~HasProjectDir /\ ExecutableResolvable =>
        /\ ~cmd.nil
        /\ cmd.explicitBuildFile = Abs(pwd, ValueOf("-b", "--build-file"))
        /\ cmd.buildFile = Empty
        /\ cmd.rootBuildFile = Empty

\* -b with a relative path, next to -gn and -c, in a tree where discovery
\* would have found a build file
C2_Witness ==
    /\ GradlePlan /\ HasBuildFile /\ ~HasProjectDir /\ Nearest /\ HasSettingsFile
    /\ findGradleBuildFile(fs, pwd) # Empty
    /\ ValueOf("-b", "--build-file")[1] # ""
    /\ cmd.explicitBuildFile = pwd \o ValueOf("-b", "--build-file")

-----------------------------------------------------------------------------
(* C3 *)

\* C3: with -p / --project-dir and an executable resolvable, a command is
\* returned with explicitProjectDir = abs(dir) and every file field empty,
\* whatever files exist and whatever -b / -c are given; Execute then hands
\* the tool the user's trailing arguments only, with no -b and no -c added.
C3_ExplicitProjectDir ==
    tool = "gradle" /\ HasProjectDir =>
        /\ Resolved /\ ExecutableResolvable => ~cmd.nil
        /\ PlanReturned =>
            /\ cmd.explicitProjectDir = Abs(pwd, ValueOf("-p", "--project-dir"))
            /\ cmd.buildFile = Empty
            /\ cmd.rootBuildFile = Empty
            /\ cmd.settingsFile = Empty
            /\ cmd.explicitBuildFile = Empty
            /\ cmd.explicitSettingsFile = Empty
        /\ Executed => toolArgs = TrailingArgs

\* -p with a relative directory and -b, -c beside it, in a tree with build and settings
\* files, after Execute
C3_Witness ==
    /\ Executed /\ tool = "gradle" /\ HasProjectDir /\ HasBuildFile /\ HasSettingsFile
    /\ findGradleBuildFile(fs, pwd) # Empty
    /\ findGradleSettingsFile(fs, pwd) # Empty
    /\ cmd.explicitProjectDir = DirP
    /\ toolArgs = UserArgs

-----------------------------------------------------------------------------
(* C4 *)

\* the root-candidate build file of a directory, Empty if it has none
RootCandidateIn(d) ==
    IF tool = "maven"
    THEN (IF Join(d, "pom.xml") \in fs THEN Join(d, "pom.xml") ELSE Empty)
    ELSE IF Join(d, "build.gradle") \in fs THEN Join(d, "build.gradle")
    ELSE IF Join(d, "build.gradle.kts") \in fs THEN Join(d, "build.gradle.kts")
    ELSE Empty

\* the flag by which Execute names the build file
BuildFlagName == IF tool = "gradle" THEN <<"-b">> ELSE <<"-f">>

\* the working directory and its parent each hold a root-candidate build file
ChildAndParent ==
    /\ pwd # Root
    /\ RootCandidateIn(pwd) # Empty
    /\ RootCandidateIn(ParentDir(pwd)) # Empty
    /\ NoExplicitFile
    /\ ExecutableResolvable

\* root is the parent's file, nearest the working directory's, and the flag
\* added by Execute names the root file unless -gn is given
RootPreferred ==
    /\ Resolved =>
        /\ ~cmd.nil
        /\ cmd.rootBuildFile = RootCandidateIn(ParentDir(pwd))
        /\ cmd.buildFile = RootCandidateIn(pwd)
    /\ Executed =>
        /\ Len(toolArgs) >= 2
        /\ toolArgs[1] = BuildFlagName
        /\ toolArgs[2] = IF Nearest THEN RootCandidateIn(pwd)
                         ELSE RootCandidateIn(ParentDir(pwd))

\* C4 as stated: whenever the working directory and its parent each hold a
\* root-candidate build file, root is the parent's and nearest the working
\* directory's; the added -b / -f names the root file, or the nearest with -gn.
C4_Original == ChildAndParent => RootPreferred

\* C4 (amended): the same, for a parent that is not the filesystem root.
C4_RootPreferredUnlessNearest == ChildAndParent /\ ParentDir(pwd) # Root => RootPreferred

\* gradle with -gn: both files exist, they differ, and -b names the nearest one
C4_Witness ==
    /\ Executed /\ tool = "gradle" /\ Nearest
    /\ ChildAndParent /\ ParentDir(pwd) # Root
    /\ cmd.rootBuildFile # cmd.buildFile
    /\ toolArgs[2] = cmd.buildFile

-----------------------------------------------------------------------------
(* C5 *)

\* no settings file at or above the working directory
NoSettingsAbove ==
    \A d \in UpFrom(pwd) :
        Join(d, "settings.gradle") \notin fs /\ Join(d, "settings.gradle.kts") \notin fs

\* the ancestors of the working directory, below the filesystem root, that
\* continue an unbroken run of build.gradle files starting at its parent
RunAbove ==
    {d \in UpFrom(pwd) \ {pwd, Root} :
        \A e \in UpFrom(pwd) :
            Len(d) <= Len(e) /\ Len(e) < Len(pwd) => Join(e, "build.gradle") \in fs}

\* C5 as stated: with build.gradle in the working directory and in an unbroken
\* run of two or more ancestors, rootBuildFile is the file of the highest
\* directory of the run (here with no settings file limiting the search).
C5_Original ==
    /\ GradlePlan /\ ~HasProjectDir /\ ~HasBuildFile
    /\ NoSettingsAbove
    /\ Join(pwd, "build.gradle") \in fs
    /\ Cardinality(RunAbove) >= 2
    => cmd.rootBuildFile = Join(Highest(RunAbove), "build.gradle")

-----------------------------------------------------------------------------
(* C6 *)

\* the directories at or above the working directory, below the filesystem
\* root, that hold a settings file
SettingsDirs ==
    {d \in UpFrom(pwd) \ {Root} :
        Join(d, "settings.gradle") \in fs \/ Join(d, "settings.gradle.kts") \in fs}

\* a is a strict ancestor of b
StrictAncestor(a, b) == Len(a) < Len(b) /\ SubSeq(b, 1, Len(a)) = a

\* C6 as stated: when a settings file is discovered in directory S and no
\* -b / -p is given, rootBuildFile is never in a strict ancestor of S.
C6_Original ==
    /\ GradlePlan /\ ~HasProjectDir /\ ~HasBuildFile
    /\ SettingsDirs # {}
    /\ cmd.rootBuildFile # Empty
    => ~StrictAncestor(Dir(cmd.rootBuildFile), Deepest(SettingsDirs))

-----------------------------------------------------------------------------
(* C7 *)

BuildInP == Join(DirP, "build.gradle")

\* working directory /p/child, /p holds build.gradle and gradlew, /p/child
\* holds no build file (and no wrapper)
Scenario7 ==
    /\ tool = "gradle" /\ ~windows
    /\ pwd = DirChild
    /\ BuildInP \in fs
    /\ Join(DirP, "gradlew") \in fs
    /\ \A n \in {"build.gradle", "build.gradle.kts", "child.gradle", "child.gradle.kts",
                 "gradlew"} : Join(DirChild, n) \notin fs
    /\ ~HasProjectDir /\ ~HasBuildFile

\* C7 as stated: in the scenario the command has rootBuildFile =
\* /p/build.gradle, executable = /p/gradlew and an empty nearest buildFile.
C7_Original ==
    Scenario7 /\ Resolved =>
        /\ ~cmd.nil
        /\ cmd.rootBuildFile = BuildInP
        /\ cmd.executable = Join(DirP, "gradlew")
        /\ cmd.buildFile = Empty

\* C7 (amended): in the scenario the command has rootBuildFile =
\* /p/build.gradle, executable = /p/gradlew, and the nearest buildFile is
\* /p/build.gradle as well, the nearest search walking upward too.
C7_ParentOnlyScenario ==
    Scenario7 /\ Resolved =>
        /\ ~cmd.nil
        /\ cmd.rootBuildFile = BuildInP
        /\ cmd.executable = Join(DirP, "gradlew")
        /\ cmd.buildFile = BuildInP

\* the scenario with no argument at all, resolved
C7_Witness == Scenario7 /\ PlanReturned /\ args = <<>> /\ cmd.buildFile = BuildInP

-----------------------------------------------------------------------------
(* C8 *)

\* the build-file candidates of a directory, in priority order
CandidateNames(d) ==
    IF tool = "maven" THEN <<"pom.xml">>
    ELSE <<"build.gradle", "build.gradle.kts", Base(d) \o ".gradle", Base(d) \o ".gradle.kts">>

\* the positions of the candidates that exist in d
CandidateHits(d) ==
    {i \in 1..Len(CandidateNames(d)) : Join(d, CandidateNames(d)[i]) \in fs}

\* the candidate of d that comes first in priority order
FirstCandidate(d) ==
    Join(d, CandidateNames(d)[CHOOSE i \in CandidateHits(d) :
                                  \A j \in CandidateHits(d) : i <= j])

\* a build file in the working directory and in none of its ancestors
OnlyInWorkingDir ==
    /\ CandidateHits(pwd) # {}
    /\ \A d \in UpFrom(pwd) \ {pwd} : CandidateHits(d) = {}
    /\ NoExplicitFile
    /\ ExecutableResolvable

\* the build file of the working directory is both nearest and root
NearestIsRoot ==
    /\ ~cmd.nil
    /\ cmd.buildFile = FirstCandidate(pwd)
    /\ cmd.rootBuildFile = FirstCandidate(pwd)

\* C8 as stated: with a build file in the working directory only, the command
\* has buildFile = rootBuildFile = that file.
C8_Original == OnlyInWorkingDir /\ Resolved => NearestIsRoot

\* C8 (amended): the same, for a working directory that is not the filesystem
\* root.
C8_OnlyInWorkingDir == OnlyInWorkingDir /\ pwd # Root /\ Resolved => NearestIsRoot

\* the only build file is the directory-named one of the working directory
C8_Witness ==
    /\ GradlePlan /\ OnlyInWorkingDir /\ pwd # Root
    /\ cmd.buildFile = Join(pwd, Base(pwd) \o ".gradle")
    /\ cmd.rootBuildFile = cmd.buildFile

-----------------------------------------------------------------------------
(* C9 *)

\* the settings file of the nearest directory holding one, Empty if none
ExpectedSettings ==
    IF SettingsDirs = {} THEN Empty
    ELSE IF Join(Deepest(SettingsDirs), "settings.gradle") \in fs
    THEN Join(Deepest(SettingsDirs), "settings.gradle")
    ELSE Join(Deepest(SettingsDirs), "settings.gradle.kts")

\* C9: with -b and neither -c nor -p, settingsFile is the settings file found
\* upward from the working directory (empty when none) and Execute passes it
\* as an added -c; with -b and -c both, settingsFile is empty and no -c is added.
C9_SettingsWithExplicitBuildFile ==
    tool = "gradle" /\ HasBuildFile /\ ~HasProjectDir =>
        /\ PlanReturned =>
            cmd.settingsFile = IF HasSettingsFile THEN Empty ELSE ExpectedSettings
        /\ Executed =>
            toolArgs = (IF ~HasSettingsFile /\ ExpectedSettings # Empty
                        THEN <<<<"-c">>, ExpectedSettings>> ELSE <<>>) \o TrailingArgs

\* -b alone, a settings file above the working directory, passed on with -c
C9_Witness ==
    /\ Executed /\ tool = "gradle" /\ HasBuildFile /\ ~HasProjectDir /\ ~HasSettingsFile
    /\ ExpectedSettings # Empty
    /\ Dir(ExpectedSettings) # pwd
    /\ toolArgs[1] = <<"-c">>
    /\ toolArgs[2] = ExpectedSettings

-----------------------------------------------------------------------------
(* C10 *)

ExplicitSettingsOnly ==
    tool = "gradle" /\ HasSettingsFile /\ ~HasBuildFile /\ ~HasProjectDir

-----------------------------------------------------------------------------
(* C11 *)

\* no build-file candidate in any directory the upward search probes
NoBuildFileDiscoverable ==
    \A d \in UpFrom(pwd) \ {Root} : CandidateHits(d) = {}

\* only a settings file can be had: no -p / -b, no build file, an executable
SettingsOnly ==
    /\ tool = "gradle" /\ ~HasProjectDir /\ ~HasBuildFile
    /\ ExecutableResolvable
    /\ NoBuildFileDiscoverable
    /\ (SettingsDirs # {} \/ HasSettingsFile)

\* the user's arguments as Execute passes them on behind the flags it adds
PassedOn ==
    IF tool = "gradle" THEN TrailingArgs
    ELSE SelectSeq(args, LAMBDA t : t \notin {<<"-gn">>, <<"-gd">>})

\* the tokens Execute puts in front of the user's arguments
AddedArgs ==
    IF Len(toolArgs) >= Len(PassedOn)
    THEN SubSeq(toolArgs, 1, Len(toolArgs) - Len(PassedOn)) ELSE <<>>

\* the positions of the added build-file flag (-b / -f)
AddedBuildFlags == {i \in 1..Len(AddedArgs) : AddedArgs[i] = BuildFlagName}

\* C11: with an executable, no -p / -b and no build file discoverable, a
\* settings file discovered or -c given yields a command in explicit and
\* non-explicit mode alike, with empty buildFile and rootBuildFile, and
\* Execute adds no -b; in general an added -b / -f is present only when a
\* discovered build file is non-empty, and names it.
C11_DegradedPlan ==
    /\ SettingsOnly /\ Resolved =>
        /\ ~cmd.nil
        /\ exitCode = <<>>
        /\ cmd.buildFile = Empty
        /\ cmd.rootBuildFile = Empty
    /\ SettingsOnly /\ Executed => AddedBuildFlags = {}
    /\ Executed =>
        /\ toolArgs = AddedArgs \o PassedOn
        /\ \A i \in AddedBuildFlags :
               /\ cmd.buildFile # Empty
               /\ cmd.buildFile \in fs
               /\ i < Len(AddedArgs)
               /\ AddedArgs[i + 1] \in {cmd.buildFile, cmd.rootBuildFile}

\* explicit mode, a settings file discovered above the working directory and
\* nothing else: the tool receives -c and no -b
C11_Witness ==
    /\ Executed /\ SettingsOnly /\ explicit /\ ~HasSettingsFile
    /\ cmd.buildFile = Empty
    /\ AddedArgs = <<<<"-c">>, ExpectedSettings>>

-----------------------------------------------------------------------------
(* C12 *)

\* no flag that names a file or the project directory
NoExplicitFlag ==
    IF tool = "gradle" THEN ~HasProjectDir /\ ~HasBuildFile /\ ~HasSettingsFile
    ELSE ~HasMavenFile

\* nothing to build: no build file and (gradle) no settings file discoverable
NoProjectDiscoverable ==
    /\ NoBuildFileDiscoverable
    /\ tool = "gradle" => SettingsDirs = {}

\* the cases in which resolution fails
ResolutionFails ==
    \/ ~ExecutableResolvable
    \/ NoExplicitFlag /\ NoProjectDiscoverable

\* C12: when no executable is resolvable, or with no explicit file / project
\* flag neither a build file nor a settings file (maven: no pom.xml) is
\* discoverable, no command is returned, Exit being called once with a
\* non-zero status in explicit mode and never in non-explicit mode; in every
\* other case a command is returned and Exit is not called.
C12_StrictOrBestEffort ==
    Resolved =>
        IF ResolutionFails
        THEN /\ cmd.nil
             /\ explicit => Len(exitCode) = 1 /\ exitCode[1] # 0
             /\ ~explicit => exitCode = <<>>
        ELSE ~cmd.nil /\ exitCode = <<>>

\* explicit mode, an executable on the PATH but no project: Exit(-1), nil
C12_Witness ==
    /\ Resolved /\ explicit /\ ExecutableResolvable
    /\ NoExplicitFlag /\ NoProjectDiscoverable
    /\ cmd.nil
    /\ exitCode = <<-1>>

-----------------------------------------------------------------------------
(* C13 *)

MetaFlags == {<<"-gn">>, <<"-gd">>, <<"-gr">>}

\* C13 as stated, its first half: the argument vector Execute hands to the
\* tool (gradle and maven alike) holds none of the meta-flags -gn, -gd, -gr.
\* (The second half, that the other tokens of the user all arrive in their
\* original order, is subject to the alias rewriting of the gradle family.)
C13_Original ==
    Executed => \A i \in 1..Len(toolArgs) : toolArgs[i] \notin MetaFlags

-----------------------------------------------------------------------------
(* C14 *)

\* -gr is among the arguments
ReplaceFlagGiven == \E i \in 1..Len(args) : args[i] = <<"-gr">>

\* s ends with t
EndsWith(s, t) ==
    Len(s) >= Len(t) /\ SubSeq(s, Len(s) - Len(t) + 1, Len(s)) = t

\* the user's arguments put through the alias table when the setting is on
ThroughTable(on) == IF on THEN replaceArgs(UserArgs, config.mappings) ELSE UserArgs

\* Execute, run with an effective replace setting of on: the configuration
\* is left with that setting, the trailing arguments go through the alias
\* table iff it is on, and reach the tool unchanged when the table is empty
RewriteSwitch(on) ==
    pc = "gradle" =>
        /\ config'.replace = on
        /\ EndsWith(toolArgs', ThroughTable(on))
        /\ config.mappings = NoMappings => EndsWith(toolArgs', UserArgs)

\* C14 as stated: the effective setting is the configuration default when
\* -gr is absent and the inverse of the default when -gr is present.
C14_Original ==
    [][RewriteSwitch(IF ReplaceFlagGiven THEN ~config.replace ELSE config.replace)]_vars

\* C14 (amended): the effective setting is the configuration default when
\* -gr is absent and off when -gr is present, whatever the default; the
\* trailing arguments go through the alias table iff it is on, and reach the
\* tool unchanged whenever it is off or the table is empty.
C14_RewriteSwitch ==
    [][RewriteSwitch(IF ReplaceFlagGiven THEN FALSE ELSE config.replace)]_vars

\* -gr given next to an alias token: the alias reaches the tool as typed
C14_Witness ==
    /\ Executed /\ tool = "gradle" /\ ReplaceFlagGiven
    /\ config.mappings = BuildAlias
    /\ \E i \in 1..Len(UserArgs) : UserArgs[i] = <<"b">>
    /\ ~config.replace
    /\ EndsWith(toolArgs, UserArgs)

-----------------------------------------------------------------------------
(* C15 *)

SelectionFlags ==
    {<<"-b">>, <<"--build-file">>, <<"-c">>, <<"--settings-file">>,
     <<"-p">>, <<"--project-dir">>}

\* the tool-selection flags typed by the user, each with the value after it
RECURSIVE ToolSelection(_)
ToolSelection(s) ==
    IF Len(s) < 2 THEN <<>>
    ELSE IF s[1] \in SelectionFlags
    THEN <<s[1], s[2]>> \o ToolSelection(SubSeq(s, 3, Len(s)))
    ELSE ToolSelection(Tail(s))

\* s can be had from t by deleting tokens
RECURSIVE IsSubsequence(_, _)
IsSubsequence(s, t) ==
    IF s = <<>> THEN TRUE
    ELSE IF t = <<>> THEN FALSE
    ELSE IF s[1] = t[1] THEN IsSubsequence(Tail(s), Tail(t))
    ELSE IsSubsequence(s, Tail(t))

\* C15 as stated: whatever the alias table, the flag / value pairs added by
\* Execute (-b file, -c file) name the files as resolved, and the
\* tool-selection tokens typed by the user (-b, -c, -p, their long forms and
\* the value after each) are in the final vector exactly as typed.
C15_Original ==
    Executed /\ tool = "gradle" =>
        /\ \A i \in 1..Len(AddedArgs) :
               \/ AddedArgs[i] \in {<<"-b">>, <<"-c">>}
               \/ AddedArgs[i] \in {cmd.buildFile, cmd.rootBuildFile, cmd.settingsFile}
        /\ IsSubsequence(ToolSelection(UserArgs), toolArgs)

-----------------------------------------------------------------------------
(* C16 *)

\* the positions of the settings flag added by Execute
AddedSettingsFlags == {i \in 1..(Len(AddedArgs) - 1) : AddedArgs[i] = <<"-c">>}

\* the positions of the two kinds of added flags
AddedFlags == AddedBuildFlags \cup AddedSettingsFlags

\* the banner clause that names the file of the added flag at position i
ClauseOf(i) ==
    Clause(IF i \in AddedBuildFlags THEN "to run buildFile" ELSE "with settings at",
           AddedArgs[i + 1])

\* the positions of a clause in the banner
ClausePositions(c) == {k \in 1..Len(banner) : banner[k] = c}

\* the build file the tool is run with: the one of the added flag, else the
\* one the user names
GoverningBuildFile ==
    IF AddedBuildFlags # {} THEN AddedArgs[(CHOOSE i \in AddedBuildFlags : TRUE) + 1]
    ELSE IF tool = "gradle" /\ HasBuildFile THEN Abs(pwd, ValueOf("-b", "--build-file"))
    ELSE IF tool = "maven" /\ HasMavenFile THEN Abs(pwd, ValueOf("-f", "--file"))
    ELSE Empty

\* the settings file the tool is run with
GoverningSettingsFile ==
    IF AddedSettingsFlags # {} THEN AddedArgs[(CHOOSE i \in AddedSettingsFlags : TRUE) + 1]
    ELSE IF tool = "gradle" /\ HasSettingsFile
    THEN Abs(pwd, ValueOf("-c", "--settings-file"))
    ELSE Empty

\* the project directory the tool is run with
GoverningProjectDir ==
    IF tool = "gradle" /\ HasProjectDir THEN Abs(pwd, ValueOf("-p", "--project-dir"))
    ELSE Empty

\* the file that governs the axis a clause speaks of
Governing(kind) ==
    IF kind = "to run buildFile" THEN GoverningBuildFile
    ELSE IF kind = "with settings at" THEN GoverningSettingsFile
    ELSE IF kind = "to run project at" THEN GoverningProjectDir
    ELSE cmd.executable

\* every clause names the file that governs its axis
ClausesGovern == \A k \in 1..Len(banner) : banner[k].file = Governing(banner[k].kind)

\* the clauses of the added flags stand in the order the flags were added
ClausesInOrder ==
    \A i, j \in AddedFlags :
        i < j => \A k \in ClausePositions(ClauseOf(i)), l \in ClausePositions(ClauseOf(j)) : k < l

\* C16 as stated: every file passed with an added flag (-b / -f file,
\* -c file) is named by a banner clause, every clause names the file that
\* governs its axis, and the clauses are in the order the flags were added.
C16_Original ==
    Executed =>
        /\ \A i \in AddedFlags : ClausePositions(ClauseOf(i)) # {}
        /\ ClausesGovern
        /\ ClausesInOrder

\* the one clause that follows the executable: the project directory, else
\* the build file, else the settings file
ExpectedClause ==
    IF GoverningProjectDir # Empty
    THEN <<Clause("to run project at", GoverningProjectDir)>>
    ELSE IF GoverningBuildFile # Empty
    THEN <<Clause("to run buildFile", GoverningBuildFile)>>
    ELSE IF GoverningSettingsFile # Empty
    THEN <<Clause("with settings at", GoverningSettingsFile)>>
    ELSE <<>>

\* C16 (amended): the banner names the executable and then at most one file:
\* the -p directory, else the build file the tool is run with (the one of the
\* added -b / -f, else the user's), else the settings file it is run with.
\* So a file passed with an added -b / -f is always named, a file passed with
\* an added -c is named only when no build file is, and every clause names
\* the file that governs its axis.
C16_BannerAgrees ==
    Executed =>
        /\ banner = <<Clause(IF tool = "gradle" THEN "Using gradle at" ELSE "Using maven at",
                             cmd.executable)>> \o ExpectedClause
        /\ \A i \in AddedBuildFlags : ClausePositions(ClauseOf(i)) # {}
        /\ \A i \in AddedSettingsFlags :
               ClausePositions(ClauseOf(i)) # {} <=> GoverningBuildFile = Empty
        /\ ClausesGovern
        /\ ClausesInOrder

\* -b and -c both added: the banner names the build file and not the settings
\* file
C16_Witness ==
    /\ Executed /\ tool = "gradle"
    /\ AddedBuildFlags # {} /\ AddedSettingsFlags # {}
    /\ Len(banner) = 2
    /\ banner[2] = Clause("to run buildFile", cmd.rootBuildFile)

-----------------------------------------------------------------------------
(* C17 *)

\* the flags of the axes on which Execute may add a flag of its own
BuildAxis == {<<"-b">>, <<"--build-file">>}
SettingsAxis == {<<"-c">>, <<"--settings-file">>}
MavenAxis == {<<"-f">>, <<"--file">>}

\* the positions of s that hold a flag of the axis
AxisPositions(s, axis) == {i \in 1..Len(s) : s[i] \in axis}

\* the user gives at most one flag per axis, each followed by its value
OneFlagPerAxis ==
    \A axis \in {BuildAxis, SettingsAxis, MavenAxis, {<<"-p">>, <<"--project-dir">>}} :
        /\ Cardinality(AxisPositions(args, axis)) <= 1
        /\ \A i \in AxisPositions(args, axis) : i < Len(args)

\* C17: Execute adds -b only if neither -b / --build-file nor -p /
\* --project-dir was given (with a value), -c only if neither -c /
\* --settings-file nor -p was given, and for maven -f only if -f / --file was
\* not given; so with at most one flag per axis from the user, each followed
\* by its value, the final vector holds at most one -b, one -c and one -f;
\* and maven with -f returns a command whenever an executable is resolvable,
\* even when there is no pom.xml anywhere.
C17_ExplicitSuppresses ==
    /\ Executed /\ tool = "gradle" =>
        /\ AddedBuildFlags # {} => ~HasBuildFile /\ ~HasProjectDir
        /\ AddedSettingsFlags # {} => ~HasSettingsFile /\ ~HasProjectDir
    /\ Executed /\ tool = "maven" =>
        /\ AddedBuildFlags # {} => ~HasMavenFile
        /\ AddedSettingsFlags = {}
    /\ Executed /\ OneFlagPerAxis =>
        \A axis \in {BuildAxis, SettingsAxis, MavenAxis} :
            Cardinality(AxisPositions(toolArgs, axis)) <= 1
    /\ Resolved /\ tool = "maven" /\ HasMavenFile /\ ExecutableResolvable =>
        /\ ~cmd.nil
        /\ cmd.explicitBuildFile = Abs(pwd, ValueOf("-f", "--file"))

\* maven with -f and no pom.xml anywhere: a command, and the only -f the
\* tool receives is the user's
C17_Witness ==
    /\ Executed /\ tool = "maven" /\ HasMavenFile /\ OneFlagPerAxis
    /\ \A f \in fs : f[Len(f)] # "pom.xml"
    /\ AddedArgs = <<>>
    /\ Cardinality(AxisPositions(toolArgs, MavenAxis)) = 1

-----------------------------------------------------------------------------
(* C18 *)

\* a is b or an ancestor of b
AtOrAbove(a, b) == Len(a) <= Len(b) /\ SubSeq(b, 1, Len(a)) = a

\* the directories from d up to, but excluding, s
UpToExcluding(d, s) == {e \in UpFrom(d) : StrictAncestor(s, e)}

\* the root search as FindGradle runs it: started at the parent D of the
\* working directory, with the settings file discovered in S, D at or below S,
\* a root candidate in S and none from D up to but excluding S
RootSearchBelowSettings ==
    /\ GradlePlan /\ ~HasProjectDir /\ ~HasBuildFile
    /\ pwd # Root
    /\ SettingsDirs # {}
    /\ AtOrAbove(Deepest(SettingsDirs), ParentDir(pwd))
    /\ RootCandidateIn(Deepest(SettingsDirs)) # Empty
    /\ \A e \in UpToExcluding(ParentDir(pwd), Deepest(SettingsDirs)) :
           RootCandidateIn(e) = Empty

\* C18 as stated: findGradleRootFile, given a settings file in S and started
\* at a directory D at or below S, returns the build.gradle(.kts) of S when S
\* holds one and no directory from D up to but excluding S does.
C18_Original ==
    RootSearchBelowSettings =>
        findGradleRootFile(fs, ParentDir(pwd), ExpectedSettings)
            = RootCandidateIn(Deepest(SettingsDirs))

-----------------------------------------------------------------------------
(* C19 *)

\* the directories among dirs that hold a build-file candidate
CandidateDirs(dirs) == {d \in dirs : CandidateHits(d) # {}}

\* the build file the priority rule names when the directories probed are
\* dirs: the first candidate, in list order, of the nearest directory holding
\* one, the dirname candidates being named after that directory
NearestCandidate(dirs) ==
    IF CandidateDirs(dirs) = {} THEN Empty
    ELSE FirstCandidate(Deepest(CandidateDirs(dirs)))

\* the directories among dirs that hold a settings file
SettingsDirsAmong(dirs) ==
    {d \in dirs : Join(d, "settings.gradle") \in fs \/ Join(d, "settings.gradle.kts") \in fs}

\* the settings file the priority rule names
NearestSettings(dirs) ==
    IF SettingsDirsAmong(dirs) = {} THEN Empty
    ELSE IF Join(Deepest(SettingsDirsAmong(dirs)), "settings.gradle") \in fs
    THEN Join(Deepest(SettingsDirsAmong(dirs)), "settings.gradle")
    ELSE Join(Deepest(SettingsDirsAmong(dirs)), "settings.gradle.kts")

\* the searches run from the working directory (no -p, -b, -c, -f) give the
\* results the priority rule names, the directories probed being dirs
SearchPriority(dirs) ==
    NoExplicitFlag =>
        /\ PlanReturned =>
            /\ WrapperDirs(dirs) # {} =>
                   cmd.executable = Join(Deepest(WrapperDirs(dirs)), WrapperName)
            /\ cmd.buildFile = NearestCandidate(dirs)
            /\ tool = "gradle" => cmd.settingsFile = NearestSettings(dirs)
        /\ Resolved /\ cmd.nil /\ ExecutableResolvable =>
            /\ NearestCandidate(dirs) = Empty
            /\ tool = "gradle" => NearestSettings(dirs) = Empty

\* C19 as stated: for the wrapper, build-file, settings-file and pom searches
\* the result lies in the nearest directory, the start directory or any
\* ancestor, that holds a candidate, and is its earliest candidate in list
\* order.
C19_Original == SearchPriority(UpFrom(pwd))

\* C19 (amended): the same, the nearest directory being looked for among the
\* start directory and its ancestors other than the filesystem root.
C19_SearchPriority == SearchPriority(UpFrom(pwd) \ {Root})

\* from /p/child/sub the nearest candidate is /p/child/child.gradle, named
\* after the directory probed, although /p holds build.gradle
C19_Witness ==
    /\ GradlePlan /\ NoExplicitFlag
    /\ pwd = DirSub
    /\ Join(DirP, "build.gradle") \in fs
    /\ cmd.buildFile = Join(DirChild, "child.gradle")

-----------------------------------------------------------------------------
(* C20 *)

\* the settings boundary FindGradle hands to the root search
RootSearchBoundary ==
    IF HasBuildFile THEN Abs(pwd, ValueOf("-b", "--build-file")) ELSE NearestSettings(UpFrom(pwd) \ {Root})

\* the walks FindGradle / FindMaven run, each as (depth of its start
\* directory, parent steps taken, result)
Walks ==
    IF tool = "gradle"
    THEN {<<Len(WrapperStart), findGradleWrapperExecSteps(fs, WrapperStart, windows),
            findGradleWrapperExec(fs, WrapperStart, windows)>>,
          <<Len(pwd), findGradleBuildFileSteps(fs, pwd), findGradleBuildFile(fs, pwd)>>,
          <<Len(pwd), findGradleSettingsFileSteps(fs, pwd), findGradleSettingsFile(fs, pwd)>>,
          <<Len(ParentDir(pwd)),
            findGradleRootFileSteps(fs, ParentDir(pwd), RootSearchBoundary),
            findGradleRootFile(fs, ParentDir(pwd), RootSearchBoundary)>>}
    ELSE {<<Len(pwd), findMavenWrapperExecSteps(fs, pwd, windows),
            findMavenWrapperExec(fs, pwd, windows)>>,
          <<Len(pwd), findMavenBuildFileSteps(fs, pwd), findMavenBuildFile(fs, pwd)>>,
          <<Len(ParentDir(pwd)), findMavenRootFileSteps(fs, ParentDir(pwd)),
            findMavenRootFile(fs, ParentDir(pwd))>>}

\* C20: every upward walk returns after at most d parent steps, d being the
\* depth of its start directory, a match lying as many directories above the
\* start as steps were taken; and so FindGradle / FindMaven always return:
\* in every start state they yield a command or nil.
C20_WalksTerminate ==
    /\ \A w \in Walks :
           /\ 0 <= w[2] /\ w[2] <= w[1]
           /\ w[3] # Empty => w[2] = w[1] - Len(Dir(w[3]))
    /\ pc = "start" =>
           (IF tool = "gradle" THEN FindGradle(fs, pwd, paths, args, explicit, windows)
            ELSE FindMaven(fs, pwd, paths, args, explicit, windows)).cmd.nil \in BOOLEAN

\* from /p/child/sub with no build file anywhere the build-file walk takes
\* all of its three parent steps and FindGradle has returned
C20_Witness ==
    /\ Resolved /\ tool = "gradle"
    /\ pwd = DirSub
    /\ findGradleBuildFile(fs, pwd) = Empty
    /\ findGradleBuildFileSteps(fs, pwd) = Len(pwd)

-----------------------------------------------------------------------------
(* C21 *)

\* C21: in every command returned by FindGradle or FindMaven, rootBuildFile
\* is non-empty if and only if buildFile is non-empty, and when both are
\* non-empty the directory of rootBuildFile is the directory of buildFile or
\* an ancestor of it.
C21_RootNotDeeperThanNearest ==
    PlanReturned =>
        /\ cmd.rootBuildFile # Empty <=> cmd.buildFile # Empty
        /\ cmd.rootBuildFile # Empty /\ cmd.buildFile # Empty =>
               AtOrAbove(Dir(cmd.rootBuildFile), Dir(cmd.buildFile))

\* a command whose root build file lies in a strict ancestor of the directory
\* of its nearest build file
C21_Witness ==
    /\ PlanReturned /\ NoExplicitFile
    /\ cmd.buildFile # Empty
    /\ cmd.rootBuildFile # Empty
    /\ StrictAncestor(Dir(cmd.rootBuildFile), Dir(cmd.buildFile))

-----------------------------------------------------------------------------
(* C22 *)

\* the files that lie directly in the filesystem root
RootLevelFiles == {f \in fs : Len(f) = 1}

\* what FindGradle / FindMaven return on a given tree
ResolutionOn(files) ==
    IF tool = "gradle" THEN FindGradle(files, pwd, paths, args, explicit, windows)
    ELSE FindMaven(files, pwd, paths, args, explicit, windows)

\* FindGradle / FindMaven has returned and Execute has not run yet
JustResolved == pc \in {"nil", "gradle", "maven"}

\* C22: the filesystem root is never probed. When FindGradle / FindMaven
\* has returned, no walk has returned a file that lies directly in the root;
\* a walk started at the root has returned NotFound at once, before any probe
\* and without a parent step; and what is resolved does not depend on the
\* files that lie directly in the root: the command and the Exit calls are
\* those of the same tree without them.
C22_RootNeverProbed ==
    JustResolved =>
        /\ \A w \in Walks :
               /\ w[3] # Empty => Dir(w[3]) # Root
               /\ w[1] = 0 => w[3] = Empty /\ w[2] = 0
        /\ LET r == ResolutionOn(fs \ RootLevelFiles)
           IN  cmd = r.cmd /\ exitCode = r.exits
        /\ \A f \in {cmd.buildFile, cmd.rootBuildFile, cmd.settingsFile} :
               f # Empty => Dir(f) # Root
        /\ cmd.executable \notin {<<"gradlew">>, <<"gradlew.bat">>, <<"mvnw">>, <<"mvnw.bat">>}

\* from /p, with build.gradle and settings.gradle directly in the root and a
\* gradle on the PATH: nothing is found and no command is returned
C22_Witness ==
    /\ Resolved /\ tool = "gradle" /\ NoExplicitFlag
    /\ pwd = DirP
    /\ Join(Root, "build.gradle") \in fs
    /\ Join(Root, "settings.gradle") \in fs
    /\ ExecutableResolvable
    /\ cmd.nil

====
